---- MODULE Spec2Model ----
(***************************************************************************)
(* The proposal wizard of simpleprojex: the formula evaluator              *)
(* (src/lib/formula-evaluator.ts), the selection state and its handlers    *)
(* (src/unnamed/part_000, the CreateProposal page) and the cost            *)
(* aggregation of the trades tab (trades-tab.tsx).                         *)
(*                                                                         *)
(* Text is a sequence of one-character strings.  A number is a record      *)
(* [n, d]: the rational n/d with d >= 1 in lowest terms, and the IEEE      *)
(* values that are not rationals: Infinity (1/0), -Infinity (-1/0), NaN    *)
(* (0/0) and the negative zero (0/-1).  Arithmetic is exact: the model's   *)
(* numbers are small, so no rounding and no overflow of a double occurs.   *)
(***************************************************************************)
EXTENDS Integers, Sequences, FiniteSets, TLC

(***************************************************************************)
(* Numbers                                                                 *)
(***************************************************************************)
Abs(i) == IF i < 0 THEN -i ELSE i

RECURSIVE GCD(_, _)
GCD(a, b) == IF b = 0 THEN a ELSE GCD(b, a % b)

Num(i) == [n |-> i, d |-> 1]
PosInf == [n |-> 1, d |-> 0]
NegInf == [n |-> -1, d |-> 0]
NaN == [n |-> 0, d |-> 0]
NegZero == [n |-> 0, d |-> -1]

\* n/d in lowest terms, for d # 0 and n # 0 or d > 0
Rat(n, d) ==
    LET g == GCD(Abs(n), Abs(d))
        s == IF d < 0 THEN -1 ELSE 1
    IN  [n |-> (s * n) \div g, d |-> (s * d) \div g]

IsNaN(v) == v.n = 0 /\ v.d = 0
IsInf(v) == v.n # 0 /\ v.d = 0
IsZero(v) == v.n = 0 /\ v.d # 0
IsFinite(v) == v.d # 0
\* the sign bit of a number that is not NaN
Negative(v) == v.n < 0 \/ (v.n = 0 /\ v.d < 0)
Zero(neg) == IF neg THEN NegZero ELSE Num(0)
Inf(neg) == IF neg THEN NegInf ELSE PosInf
\* the denominator of a finite number (1 for either zero)
Den(v) == IF v.d < 0 THEN 1 ELSE v.d

Neg(v) ==
    IF IsNaN(v) THEN NaN
    ELSE IF IsZero(v) THEN Zero(~Negative(v))
    ELSE [n |-> -v.n, d |-> v.d]

Add(a, b) ==
    IF IsNaN(a) \/ IsNaN(b) THEN NaN
    ELSE IF IsInf(a) /\ IsInf(b) THEN (IF a = b THEN a ELSE NaN)
    ELSE IF IsInf(a) THEN a
    ELSE IF IsInf(b) THEN b
    ELSE IF IsZero(a) /\ IsZero(b) THEN Zero(Negative(a) /\ Negative(b))
    ELSE LET s == a.n * Den(b) + b.n * Den(a)
         IN  IF s = 0 THEN Num(0) ELSE Rat(s, Den(a) * Den(b))

Sub(a, b) == Add(a, Neg(b))

Mul(a, b) ==
    IF IsNaN(a) \/ IsNaN(b) THEN NaN
    ELSE LET neg == Negative(a) # Negative(b)
         IN  IF IsInf(a) \/ IsInf(b)
             THEN (IF IsZero(a) \/ IsZero(b) THEN NaN ELSE Inf(neg))
             ELSE IF IsZero(a) \/ IsZero(b) THEN Zero(neg)
             ELSE Rat(a.n * b.n, a.d * b.d)

Div(a, b) ==
    IF IsNaN(a) \/ IsNaN(b) THEN NaN
    ELSE LET neg == Negative(a) # Negative(b)
         IN  IF IsInf(a) THEN (IF IsInf(b) THEN NaN ELSE Inf(neg))
             ELSE IF IsInf(b) THEN Zero(neg)
             ELSE IF IsZero(b) THEN (IF IsZero(a) THEN NaN ELSE Inf(neg))
             ELSE IF IsZero(a) THEN Zero(neg)
             ELSE Rat(a.n * b.d, a.d * b.n)

\* a ** k for an integer k >= 0, by repeated multiplication
RECURSIVE PowNat(_, _)
PowNat(a, k) == IF k = 0 THEN Num(1) ELSE Mul(a, PowNat(a, k - 1))

\* a ** b of JavaScript for an exponent that is an integer, a zero or NaN
\* (x ** 0 is 1 for every x, NaN included).  No formula within the model's
\* bounds raises to a fractional or an infinite power.
Pow(a, b) ==
    IF IsNaN(b) THEN NaN
    ELSE IF IsZero(b) THEN Num(1)
    ELSE IF IsNaN(a) \/ ~IsFinite(b) \/ b.d # 1 THEN NaN
    ELSE IF b.n > 0 THEN PowNat(a, b.n)
    ELSE Div(Num(1), PowNat(a, -b.n))

\* a < b for two finite numbers
Less(a, b) == a.n * Den(b) < b.n * Den(a)

(***************************************************************************)
(* Text                                                                    *)
(***************************************************************************)
Digits == {"0", "1", "2", "3", "4", "5", "6", "7", "8", "9"}
\* The letters of the model's texts.  e, x, b, o and n (the markers of an
\* exponent, a hexadecimal, binary or octal literal and a BigInt) and the
\* underscore (a numeric separator) are left out, so that a letter after a
\* digit is never part of a numeric literal.
Letters == {"a", "c", "d", "f", "g", "h", "k", "m", "p", "r", "s", "t",
            "u", "w", "y"}
Operators == {"+", "-", "*", "/", "(", ")"}
\* A dollar sign is written in a name of JavaScript and is no word character
\* of a regular expression.  A text of the model writes = as the assignment
\* of a statement only (name = ... = expression): the equality operators, the
\* compound assignments and an assignment in parentheses are no texts of the
\* model, and neither is a dot outside a numeric literal.
Alphabet == Digits \cup Letters \cup Operators \cup {" ", ".", ";", "$", "="}

\* \w of a regular expression
IsWordChar(c) == c \in Digits \cup Letters \cup {"_"}
\* [a-zA-Z_]
IsIdentStart(c) == c \in Letters \cup {"_"}
\* a character of a name of JavaScript after its first
IsIdentPart(c) == IsWordChar(c) \/ c = "$"

\* the formula that is null or undefined
Null == <<"null">>

\* the text a string literal of this module stands for, character by character
RECURSIVE Concat(_)
Concat(parts) == IF parts = <<>> THEN <<>> ELSE Head(parts) \o Concat(Tail(parts))

\* whether position i of text holds a word character (no position: no)
WordAt(text, i) == i >= 1 /\ i <= Len(text) /\ IsWordChar(text[i])
\* \b just before position i
Boundary(text, i) == WordAt(text, i - 1) # WordAt(text, i)

\* a match of name at position i whatever is around it
MatchAtAnywhere(text, name, i) ==
    /\ i + Len(name) - 1 <= Len(text)
    /\ \A k \in 1..Len(name) : text[i + k - 1] = name[k]

\* whether the regular expression \bname\b matches text at position i
MatchAt(text, name, i) ==
    /\ i + Len(name) - 1 <= Len(text)
    /\ \A k \in 1..Len(name) : text[i + k - 1] = name[k]
    /\ Boundary(text, i)
    /\ Boundary(text, i + Len(name))

\* text.replace(new RegExp(`\\b${name}\\b`, 'g'), value), from position i on:
\* the matches are found left to right in the original text and do not overlap
RECURSIVE ReplaceFrom(_, _, _, _)
ReplaceFrom(text, name, value, i) ==
    IF i > Len(text) THEN <<>>
    ELSE IF MatchAt(text, name, i)
         THEN value \o ReplaceFrom(text, name, value, i + Len(name))
         ELSE <<text[i]>> \o ReplaceFrom(text, name, value, i + 1)

ReplaceAll(text, name, value) == ReplaceFrom(text, name, value, 1)

\* parameters.forEach(param => evaluableFormula = evaluableFormula.replace(...)):
\* one parameter after the other, in the order of the list, each on the
\* result of the one before
RECURSIVE Substitute(_, _)
Substitute(text, parameters) ==
    IF parameters = <<>> THEN text
    ELSE Substitute(ReplaceAll(text, Head(parameters).name, Head(parameters).value),
                    Tail(parameters))

\* a leftover-name test that looks at the first character only
HasIdentifierAtStart(text) == text # <<>> /\ IsIdentStart(text[1])

\* evaluableFormula.match(/\b[a-zA-Z_][a-zA-Z0-9_]*\b/g) is not null
HasIdentifier(text) ==
    \E i \in 1..Len(text) : IsIdentStart(text[i]) /\ ~WordAt(text, i - 1)

(***************************************************************************)
(* The arithmetic of JavaScript on the substituted text: what              *)
(* new Function(`return ${text}`)() computes for a text over Alphabet.     *)
(* A token is [t, c, v]: t is "num" (v its value), "op" (c its character), *)
(* "pow" (the power operator) or "err" (the text is no program: ++ and --, *)
(* which have no assignable operand here, a malformed literal, an          *)
(* unterminated comment or regular expression, a stray dot), "semi" (the    *)
(* semicolon that ends a statement), "id" (a name that starts with a       *)
(* dollar sign, with its name) or "assign" (the = of an assignment).       *)
(***************************************************************************)
NumTok(v) == [t |-> "num", c |-> "", v |-> v]
OpTok(c) == [t |-> "op", c |-> c, v |-> Num(0)]
PowTok == [t |-> "pow", c |-> "", v |-> Num(0)]
ErrTok == [t |-> "err", c |-> "", v |-> Num(0)]
SemiTok == [t |-> "semi", c |-> "", v |-> Num(0)]
AssignTok == [t |-> "assign", c |-> "", v |-> Num(0)]
IdTok(name) == [t |-> "id", c |-> "", v |-> Num(0), name |-> name]

CharAt(text, i) == IF i >= 1 /\ i <= Len(text) THEN text[i] ELSE ""

\* the position after the digits that start at position i
RECURSIVE DigitsEnd(_, _)
DigitsEnd(text, i) ==
    IF CharAt(text, i) \in Digits THEN DigitsEnd(text, i + 1) ELSE i

DigitValue(c) ==
    CASE c = "0" -> 0 [] c = "1" -> 1 [] c = "2" -> 2 [] c = "3" -> 3
      [] c = "4" -> 4 [] c = "5" -> 5 [] c = "6" -> 6 [] c = "7" -> 7
      [] c = "8" -> 8 [] c = "9" -> 9

\* the digits text[i..j-1] read in the given base
RECURSIVE DigitsValue(_, _, _, _)
DigitsValue(text, i, j, base) ==
    IF j <= i THEN 0
    ELSE DigitsValue(text, i, j - 1, base) * base + DigitValue(text[j - 1])

RECURSIVE TenTo(_)
TenTo(k) == IF k = 0 THEN 1 ELSE 10 * TenTo(k - 1)

\* The value of the literal text[i..e-1] whose integer digits end before j:
\* a legacy octal integer (octal), or a decimal with the fraction after j.
LiteralValue(text, i, j, e, octal) ==
    IF e > j + 1
    THEN Rat(DigitsValue(text, i, j, 10) * TenTo(e - j - 1)
                 + DigitsValue(text, j + 1, e, 10),
             TenTo(e - j - 1))
    ELSE Num(DigitsValue(text, i, j, IF octal THEN 8 ELSE 10))

\* the literal whose integer digits are text[i..j-1]: [v, j, ok]
ScanFrom(text, i, j, octal) ==
    IF ~octal /\ CharAt(text, j) = "."
    THEN [v |-> LiteralValue(text, i, j, DigitsEnd(text, j + 1), octal),
          j |-> DigitsEnd(text, j + 1),
          ok |-> ~IsIdentPart(CharAt(text, DigitsEnd(text, j + 1)))]
    ELSE [v |-> LiteralValue(text, i, j, j, octal),
          j |-> j,
          ok |-> ~IsIdentPart(CharAt(text, j))]

\* whether the digits text[i..j-1] are a legacy octal literal
IsLegacyOctal(text, i, j) ==
    j - i > 1 /\ text[i] = "0" /\ \A k \in i..(j - 1) : text[k] \notin {"8", "9"}

\* The numeric literal at position i (a digit, or a dot before a digit):
\* [v, j, ok], its value, the position after it, and whether it is one.
\* Digits after a leading 0 make a legacy octal literal when all are below 8
\* (the function body is sloppy-mode code), which takes no fraction; a
\* literal directly followed by a digit or an identifier start is an error.
ScanNumber(text, i) ==
    ScanFrom(text, i, DigitsEnd(text, i), IsLegacyOctal(text, i, DigitsEnd(text, i)))

\* the position of the last character of the name that starts at position i
RECURSIVE IdentEnd(_, _)
IdentEnd(text, i) ==
    IF IsIdentPart(CharAt(text, i + 1)) THEN IdentEnd(text, i + 1) ELSE i

\* the first position >= i that holds c, 0 when there is none
RECURSIVE Find(_, _, _)
Find(text, i, c) ==
    IF i > Len(text) THEN 0
    ELSE IF text[i] = c THEN i ELSE Find(text, i + 1, c)

\* the first position k >= i with text[k] = "*" and text[k+1] = "/", 0 if none
RECURSIVE FindCommentEnd(_, _)
FindCommentEnd(text, i) ==
    IF i + 1 > Len(text) THEN 0
    ELSE IF text[i] = "*" /\ text[i + 1] = "/" THEN i
    ELSE FindCommentEnd(text, i + 1)

\* Whether text[i..j-1] is the body of a regular expression literal: the
\* parentheses match, and no quantifier (+, *) stands first, after an opening
\* parenthesis or after another quantifier.  depth counts the open groups.
RECURSIVE RegexBodyOK(_, _, _, _)
RegexBodyOK(text, i, j, depth) ==
    IF i >= j THEN depth = 0
    ELSE LET c == text[i]
             prev == CharAt(text, i - 1)
         IN  IF c = "(" THEN RegexBodyOK(text, i + 1, j, depth + 1)
             ELSE IF c = ")" THEN depth > 0 /\ RegexBodyOK(text, i + 1, j, depth - 1)
             ELSE IF c \in {"+", "*"}
                  THEN prev \notin {"/", "(", "+", "*"}
                       /\ RegexBodyOK(text, i + 1, j, depth)
             ELSE RegexBodyOK(text, i + 1, j, depth)

\* The tokens of text from position i on.  operand says whether the token
\* before is complete as an operand (a literal or a closing parenthesis):
\* only then is a / the division operator, otherwise it opens a regular
\* expression literal.  A regular expression is an operand whose value in
\* arithmetic is NaN (in a sum it makes a string that is not numeric, which
\* isNaN and the other operators treat as NaN again).
RECURSIVE LexFrom(_, _, _)

\* after a block comment that ends at position k (0: it does not end)
LexAfterComment(text, k, operand) ==
    IF k = 0 THEN <<ErrTok>> ELSE LexFrom(text, k + 2, operand)

\* a regular expression literal from position i to its closing / at k
LexRegex(text, i, k) ==
    IF k = 0 \/ ~RegexBodyOK(text, i + 1, k, 0) \/ IsIdentPart(CharAt(text, k + 1))
    THEN <<ErrTok>>
    ELSE <<NumTok(NaN)>> \o LexFrom(text, k + 1, TRUE)

\* the name text[i..j]
LexName(text, i, j) == <<IdTok(SubSeq(text, i, j))>> \o LexFrom(text, j + 1, TRUE)

\* a numeric literal r = [v, j, ok]
LexNumber(text, r) ==
    IF r.ok THEN <<NumTok(r.v)>> \o LexFrom(text, r.j, TRUE) ELSE <<ErrTok>>

\* the token that starts with the character c at position i, d the one after
LexChar(text, i, operand, c, d) ==
    IF c = " " THEN LexFrom(text, i + 1, operand)
    ELSE IF c = "/" /\ d = "/" THEN <<>>
    ELSE IF c = "/" /\ d = "*"
         THEN LexAfterComment(text, FindCommentEnd(text, i + 2), operand)
    ELSE IF c = "/" /\ ~operand THEN LexRegex(text, i, Find(text, i + 1, "/"))
    ELSE IF c \in Digits \/ (c = "." /\ d \in Digits)
         THEN LexNumber(text, ScanNumber(text, i))
    ELSE IF c \in {"+", "-"} /\ d = c THEN <<ErrTok>>
    ELSE IF c = "*" /\ d = "*" THEN <<PowTok>> \o LexFrom(text, i + 2, FALSE)
    ELSE IF c \in Operators THEN <<OpTok(c)>> \o LexFrom(text, i + 1, c = ")")
    ELSE IF c = ";" THEN <<SemiTok>> \o LexFrom(text, i + 1, FALSE)
    ELSE IF c = "=" THEN <<AssignTok>> \o LexFrom(text, i + 1, FALSE)
    ELSE IF c = "$" THEN LexName(text, i, IdentEnd(text, i))
    ELSE <<ErrTok>>

LexFrom(text, i, operand) ==
    IF i > Len(text) THEN <<>>
    ELSE LexChar(text, i, operand, text[i], CharAt(text, i + 1))

Lex(text) == LexFrom(text, 1, FALSE)

\* The parser: each operator reads one nonterminal of the expression grammar
\* from token i on and gives [ok, v, i]: whether it could, the value, and the
\* position after it.
Fail == [ok |-> FALSE, v |-> NaN, i |-> 0]
Got(v, i) == [ok |-> TRUE, v |-> v, i |-> i]
IsOp(toks, i, cs) == i <= Len(toks) /\ toks[i].t = "op" /\ toks[i].c \in cs
IsPow(toks, i) == i <= Len(toks) /\ toks[i].t = "pow"

\* l op r of a binary operator
Binary(c, l, r) ==
    IF c = "+" THEN Add(l, r)
    ELSE IF c = "-" THEN Sub(l, r)
    ELSE IF c = "*" THEN Mul(l, r)
    ELSE Div(l, r)

RECURSIVE ParseAdditive(_, _), AdditiveRest(_, _, _), ParseMultiplicative(_, _),
          MultiplicativeRest(_, _, _), ParseExponentiation(_, _), ParseUnary(_, _),
          ParsePrimary(_, _)

\* acc op r, r the result of reading the right operand, and what follows
AdditiveStep(toks, acc, c, r) ==
    IF r.ok THEN AdditiveRest(toks, Binary(c, acc, r.v), r.i) ELSE Fail

AdditiveRest(toks, acc, i) ==
    IF IsOp(toks, i, {"+", "-"})
    THEN AdditiveStep(toks, acc, toks[i].c, ParseMultiplicative(toks, i + 1))
    ELSE Got(acc, i)

AdditiveFirst(toks, l) == IF l.ok THEN AdditiveRest(toks, l.v, l.i) ELSE Fail

\* AdditiveExpression: MultiplicativeExpression, then + or - and another, ...
ParseAdditive(toks, i) == AdditiveFirst(toks, ParseMultiplicative(toks, i))

MultiplicativeStep(toks, acc, c, r) ==
    IF r.ok THEN MultiplicativeRest(toks, Binary(c, acc, r.v), r.i) ELSE Fail

MultiplicativeRest(toks, acc, i) ==
    IF IsOp(toks, i, {"*", "/"})
    THEN MultiplicativeStep(toks, acc, toks[i].c, ParseExponentiation(toks, i + 1))
    ELSE Got(acc, i)

MultiplicativeFirst(toks, l) == IF l.ok THEN MultiplicativeRest(toks, l.v, l.i) ELSE Fail

\* MultiplicativeExpression: ExponentiationExpression, then * or / and another, ...
ParseMultiplicative(toks, i) == MultiplicativeFirst(toks, ParseExponentiation(toks, i))

\* base ** e, e the result of reading the exponent
PowerOf(base, e) == IF e.ok THEN Got(Pow(base, e.v), e.i) ELSE Fail

\* after the operand b: the power operator and the exponent, or nothing
ExponentiationRest(toks, b) ==
    IF ~b.ok THEN Fail
    ELSE IF IsPow(toks, b.i) THEN PowerOf(b.v, ParseExponentiation(toks, b.i + 1))
    ELSE b

\* ExponentiationExpression: a UnaryExpression, or an operand without a sign,
\* the power operator and an ExponentiationExpression (so -2 ** 2 is an error)
ParseExponentiation(toks, i) ==
    IF IsOp(toks, i, {"+", "-"}) THEN ParseUnary(toks, i)
    ELSE ExponentiationRest(toks, ParsePrimary(toks, i))

\* the sign c applied to the operand r
Signed(c, r) ==
    IF r.ok THEN Got(IF c = "-" THEN Neg(r.v) ELSE r.v, r.i) ELSE Fail

\* UnaryExpression: + or - and a UnaryExpression, or an operand
ParseUnary(toks, i) ==
    IF IsOp(toks, i, {"+", "-"}) THEN Signed(toks[i].c, ParseUnary(toks, i + 1))
    ELSE ParsePrimary(toks, i)

\* the expression r in parentheses
Parenthesised(toks, r) ==
    IF r.ok /\ IsOp(toks, r.i, {")"}) THEN Got(r.v, r.i + 1) ELSE Fail

\* PrimaryExpression: a literal, or an expression in parentheses
ParsePrimary(toks, i) ==
    IF i > Len(toks) THEN Fail
    ELSE IF toks[i].t = "num" THEN Got(toks[i].v, i + 1)
    ELSE IF IsOp(toks, i, {"("}) THEN Parenthesised(toks, ParseAdditive(toks, i + 1))
    ELSE Fail

\* the outcome of a program whose expression was read as r
Returned(toks, r) ==
    IF r.ok /\ r.i = Len(toks) + 1 THEN [k |-> "value", v |-> r.v]
    ELSE [k |-> "throw", v |-> NaN]

\* The grammar alone, by which new Function compiles the text before any of
\* it runs (the statements after the return statement are compiled and
\* never run): each operator gives the position after the
\* nonterminal it reads from token i on, 0 when there is none.  A call of an
\* operand, which throws when run, is an expression of the grammar.
RECURSIVE SyntaxAdditive(_, _), SyntaxAdditiveRest(_, _), SyntaxMultiplicative(_, _),
          SyntaxMultiplicativeRest(_, _), SyntaxExponentiation(_, _), SyntaxUnary(_, _),
          SyntaxCall(_, _), SyntaxArguments(_, _)

\* the closing parenthesis at position j, after an expression that was read
SyntaxClosed(toks, j) == IF j # 0 /\ IsOp(toks, j, {")"}) THEN j + 1 ELSE 0

\* Arguments after a MemberExpression that ends before i: ( ), ( expr ), ...
SyntaxArguments(toks, i) ==
    IF i = 0 \/ ~IsOp(toks, i, {"("}) THEN i
    ELSE IF IsOp(toks, i + 1, {")"}) THEN SyntaxArguments(toks, i + 2)
    ELSE SyntaxArguments(toks, SyntaxClosed(toks, SyntaxAdditive(toks, i + 1)))

\* CallExpression: a literal, a name or an expression in parentheses, and
\* Arguments
SyntaxCall(toks, i) ==
    IF i > Len(toks) THEN 0
    ELSE IF toks[i].t \in {"num", "id"} THEN SyntaxArguments(toks, i + 1)
    ELSE IF IsOp(toks, i, {"("})
         THEN SyntaxArguments(toks, SyntaxClosed(toks, SyntaxAdditive(toks, i + 1)))
    ELSE 0

SyntaxUnary(toks, i) ==
    IF IsOp(toks, i, {"+", "-"}) THEN SyntaxUnary(toks, i + 1) ELSE SyntaxCall(toks, i)

\* after the operand that ends before j: the power operator and the exponent
SyntaxPower(toks, j) ==
    IF j # 0 /\ IsPow(toks, j) THEN SyntaxExponentiation(toks, j + 1) ELSE j

SyntaxExponentiation(toks, i) ==
    IF IsOp(toks, i, {"+", "-"}) THEN SyntaxUnary(toks, i)
    ELSE SyntaxPower(toks, SyntaxCall(toks, i))

SyntaxMultiplicativeRest(toks, j) ==
    IF j # 0 /\ IsOp(toks, j, {"*", "/"})
    THEN SyntaxMultiplicativeRest(toks, SyntaxExponentiation(toks, j + 1))
    ELSE j

SyntaxMultiplicative(toks, i) ==
    SyntaxMultiplicativeRest(toks, SyntaxExponentiation(toks, i))

SyntaxAdditiveRest(toks, j) ==
    IF j # 0 /\ IsOp(toks, j, {"+", "-"})
    THEN SyntaxAdditiveRest(toks, SyntaxMultiplicative(toks, j + 1))
    ELSE j

SyntaxAdditive(toks, i) == SyntaxAdditiveRest(toks, SyntaxMultiplicative(toks, i))

\* the position of the first semicolon of toks, Len(toks) + 1 when there is none
RECURSIVE FirstSemi(_, _)
FirstSemi(toks, i) ==
    IF i > Len(toks) \/ toks[i].t = "semi" THEN i ELSE FirstSemi(toks, i + 1)

\* the position after the assignments name = name = ... that start at token i
RECURSIVE AfterTargets(_, _)
AfterTargets(toks, i) ==
    IF i < Len(toks) /\ toks[i].t = "id" /\ toks[i + 1].t = "assign"
    THEN AfterTargets(toks, i + 2)
    ELSE i

\* Whether the statements from token i on compile: each is empty or an
\* expression, with the assignments of its value before it, and ends at a
\* semicolon or at the end of the text.
RECURSIVE StatementsOK(_, _)
StatementsOK(toks, i) ==
    IF i > Len(toks) THEN TRUE
    ELSE IF toks[i].t = "semi" THEN StatementsOK(toks, i + 1)
    ELSE LET j == SyntaxAdditive(toks, AfterTargets(toks, i))
         IN  j # 0 /\ (j > Len(toks) \/ toks[j].t = "semi") /\ StatementsOK(toks, j)

\* The global object as the code run by new Function sees it: the names that
\* start with a dollar sign and their values.  The page defines none; a
\* function made by new Function is not strict code, so an assignment to a
\* name that is not declared makes a property of the global object.
NoGlobals == [name \in {} |-> Num(0)]

\* the global object once each name of names is assigned the value v
Assigned(g, names, v) ==
    [name \in DOMAIN g \cup names |-> IF name \in names THEN v ELSE g[name]]

\* the names the tokens of an expression read
NamesRead(toks) == {toks[k].name : k \in {j \in 1..Len(toks) : toks[j].t = "id"}}

\* the tokens of an expression with each name read as its value
WithGlobals(toks, g) ==
    [k \in 1..Len(toks) |-> IF toks[k].t = "id" THEN NumTok(g[toks[k].name]) ELSE toks[k]]

\* the outcome [k, v, g] of a program: as of Returned, and the global object
\* after it
Outcome(k, v, g) == [k |-> k, v |-> v, g |-> g]

\* the operand of return, read as r, whose value is assigned to names
ReturnsAssigned(r, names, g) ==
    IF r.k = "throw" THEN Outcome("throw", NaN, g)
    ELSE Outcome("value", r.v, Assigned(g, names, r.v))

\* the operand of return: the expression of tokens expr, evaluated before its
\* value is assigned to names; a name that is read and not defined throws a
\* ReferenceError
ReturnExpression(expr, names, g) ==
    IF ~(NamesRead(expr) \subseteq DOMAIN g) THEN Outcome("throw", NaN, g)
    ELSE ReturnsAssigned(Returned(expr, ParseAdditive(WithGlobals(expr, g), 1)), names, g)

\* the return statement of the tokens first, once the program compiles
ReturnStatement(first, g) ==
    IF first = <<>> THEN Outcome("undefined", NaN, g)
    ELSE ReturnExpression(SubSeq(first, AfterTargets(first, 1), Len(first)),
                          NamesRead(SubSeq(first, 1, AfterTargets(first, 1) - 1)), g)

\* What running `return <tokens>` gives with the global object g: [k, v, g]
\* with k "throw" (a SyntaxError, a ReferenceError, or the TypeError of calling
\* a number: an operand directly followed by a parenthesis), "undefined"
\* (nothing is returned) or "value", and the global object after the run.
\* The tokens before the first semicolon are the operand of return; what
\* follows the semicolon is compiled with it and not run.
RunTokensIn(toks, g) ==
    IF \E k \in 1..Len(toks) : toks[k].t = "err" THEN Outcome("throw", NaN, g)
    ELSE IF ~StatementsOK(toks, 1) THEN Outcome("throw", NaN, g)
    ELSE ReturnStatement(SubSeq(toks, 1, FirstSemi(toks, 1) - 1), g)

\* new Function(`return ${text}`)() with the global object g
RunFunctionIn(text, g) == RunTokensIn(Lex(text), g)

\* the outcome without the global object: [k, v]
Plain(r) == [k |-> r.k, v |-> r.v]

\* what a run gives on a page that has defined no name
RunTokens(toks) == Plain(RunTokensIn(toks, NoGlobals))

\* new Function(`return ${text}`)()
RunFunction(text) == RunTokens(Lex(text))

(***************************************************************************)
(* evaluateFormula (src/lib/formula-evaluator.ts).  A parameter is a       *)
(* record with a name and a value, both text: the value is                 *)
(* param.value.toString(), which for a number is its decimal notation.     *)
(***************************************************************************)

\* isNaN(result) ? 0 : Number(result); the result is undefined for an empty
\* program
ResultOf(r) == IF r.k # "value" \/ IsNaN(r.v) THEN Num(0) ELSE r.v

\* The run of evaluateFormula is [done, result, executed, substituted, raised,
\* text, globals]: that it ended, the number returned, whether a text was
\* handed to new Function, whether the forEach over the parameters was
\* entered, whether an exception left the code that ran, evaluableFormula at
\* the end, and the global object at the end.

\* a return of the number result
Returns(result, executed, substituted, text, g) ==
    [done |-> TRUE, result |-> result, executed |-> executed,
     substituted |-> substituted, raised |-> FALSE, text |-> text, globals |-> g]

\* an exception thrown inside the try block: no number is returned
Throws(executed, text, g) ==
    [done |-> TRUE, result |-> Num(0), executed |-> executed,
     substituted |-> TRUE, raised |-> TRUE, text |-> text, globals |-> g]

\* whether new RegExp(`\\b${name}\\b`, 'g') throws a SyntaxError: the
\* parentheses of the name are not balanced (a name of word characters is a
\* pattern that matches itself)
PatternThrows(name) ==
    Cardinality({i \in 1..Len(name) : name[i] = "("})
        # Cardinality({i \in 1..Len(name) : name[i] = ")"})

\* the parameters the forEach handles before one makes new RegExp throw
RECURSIVE Before(_)
Before(parameters) ==
    IF parameters = <<>> \/ PatternThrows(Head(parameters).name) THEN <<>>
    ELSE <<Head(parameters)>> \o Before(Tail(parameters))

\* the end of the try block once new Function(...)() has run on text
afterFunction(text, r) ==
    IF r.k = "throw" THEN Throws(TRUE, text, r.g)
    ELSE Returns(ResultOf(r), TRUE, TRUE, text, r.g)

\* the try block from the safety check on, on the substituted text
evaluateSubstituted(evaluableFormula, g) ==
    IF HasIdentifier(evaluableFormula)
    THEN Returns(Num(0), FALSE, TRUE, evaluableFormula, g)
    ELSE afterFunction(evaluableFormula, RunFunctionIn(evaluableFormula, g))

\* the try block
tryBlock(formula, parameters, g) ==
    IF Len(Before(parameters)) < Len(parameters)
    THEN Throws(FALSE, Substitute(formula, Before(parameters)), g)
    ELSE evaluateSubstituted(Substitute(formula, parameters), g)

\* a function that lets the exception of its try block out
Uncaught(run) == run

\* catch (error) { console.error(...); return 0; }
Caught(run) == IF run.raised THEN [run EXCEPT !.raised = FALSE, !.result = Num(0)] ELSE run

\* a test of the formula that finds none absent
NeverAbsent(formula) == FALSE

\* !formula: the formula is null, undefined or the empty string
IsAbsent(formula) == formula = Null \/ formula = <<>>

\* the call evaluateFormula(formula, parameters) with the global object g
evaluateFormulaIn(formula, parameters, g) ==
    IF IsAbsent(formula) THEN Returns(Num(0), FALSE, FALSE, <<>>, g)
    ELSE Caught(tryBlock(formula, parameters, g))

\* The call on a page that has defined no name.  A text without a dollar
\* sign reads and writes no name, so this is the call on every global object
\* for the formulas and the parameters of the proposal page.
evaluateFormulaRun(formula, parameters) == evaluateFormulaIn(formula, parameters, NoGlobals)

evaluateFormula(formula, parameters) == evaluateFormulaRun(formula, parameters).result

(***************************************************************************)
(* The data the page reads from the backend: the modules, the element      *)
(* definitions, the parameters with their default values and the           *)
(* templates.  A module is its id; a parameter is [id, name, value].       *)
(***************************************************************************)
AllModules == {1, 2}

\* the element definitions, by element id: { id, formula, labor_formula }
AllElements ==
    [e \in {1, 2} |->
        IF e = 1 THEN [id |-> 1, formula |-> <<"a", "*", "w">>,
                       labor_formula |-> <<"a", "+", "2">>]
        ELSE [id |-> 2, formula |-> <<"1", "0", "/", "w">>, labor_formula |-> <<>>]]

\* the parameters of the parameter list, by parameter id
AllParameters ==
    [p \in {1, 2} |->
        IF p = 1 THEN [id |-> 1, name |-> <<"a">>, value |-> <<"5">>]
        ELSE [id |-> 2, name |-> <<"w">>, value |-> <<"2">>]]

\* The templates, by template id.  A template element names its element, its
\* module and its markup: the second template element of template 1
\* specifies the markup 0.  Template 2 lists the parameters in the other
\* order and has element 1 in both modules and both elements in module 1.
AllTemplates ==
    [t \in {1, 2} |->
        IF t = 1
        THEN [parameters |-> <<AllParameters[1], AllParameters[2]>>,
              modules |-> <<1, 2>>,
              template_elements |-> <<[element |-> 1, module |-> 1, markup |-> Num(20)],
                                      [element |-> 2, module |-> 2, markup |-> Num(0)]>>]
        ELSE [parameters |-> <<AllParameters[2], AllParameters[1]>>,
              modules |-> <<1, 2>>,
              template_elements |-> <<[element |-> 1, module |-> 1, markup |-> Num(15)],
                                      [element |-> 1, module |-> 2, markup |-> Num(5)],
                                      [element |-> 2, module |-> 1, markup |-> Num(30)]>>]]

\* the values a user types into a parameter's input
ParamValues == {<<"0">>, <<>>}
\* the texts a user edits a formula or a labor formula to
EditFormulas == {<<>>, <<"a", "+", "u">>, <<"w", "*", "2">>}
\* the numbers a user edits an element's markup to: the input takes any
\* number parseFloat reads, a negative one included
MarkupValues == {Num(0), Rat(25, 2), Num(-5)}
\* the numbers a user sets the global markup to: the input of type number
\* has no lower limit
GlobalMarkupValues == {Num(0), Num(15), Rat(25, 2), Num(-5)}

\* how many user events a run of the model holds
MaxSteps == 3

(***************************************************************************)
(* The state of the CreateProposal page (useState, part_000 lines 55-65).  *)
(* A priced element is [element, module, formula, labor_formula,           *)
(* material_cost, labor_cost, markup]: element is the id of its            *)
(* definition.  steps counts the user events so far.                       *)
(***************************************************************************)
VARIABLES selectedTemplate, selectedModules, customModules, selectedParameters,
          selectedElements, useGlobalMarkup, globalMarkupPercentage, steps

\* The record of a toggle of an element on and off again: stage 1 once a pair
\* that was not priced is toggled on, with the priced elements of before;
\* stage 2 once the next event toggles the same pair off; stage 0 otherwise.
VARIABLES roundTrip

\* A call of evaluateFormula on its own: the formula as the tokens it is
\* written with, the parameter list, and the outcome of the call once made.
VARIABLES formulaTokens, evalParameters, evalOutcome

\* The calls of evaluateFormula one page makes, one after the other: the
\* global object they run on, and of each call made the formula, the
\* parameter list and the number returned.
VARIABLES globals, calls

\* The form of the page (useState, part_000 lines 41-54): the tab shown, the
\* submission flag, the errors by field, and the proposal details, a text for
\* each field.  pendingReads holds the reads of an image file that have not
\* completed, each with the details its onload callback was made with;
\* submitted holds the payloads handed to submitProposal.
VARIABLES activeTab, isSubmitting, errors, proposalDetails, pendingReads, submitted

pageVars == <<selectedTemplate, selectedModules, customModules, selectedParameters,
              selectedElements, useGlobalMarkup, globalMarkupPercentage, steps, roundTrip>>
evalVars == <<formulaTokens, evalParameters, evalOutcome>>
callVars == <<globals, calls>>
formVars == <<activeTab, isSubmitting, errors, proposalDetails, pendingReads, submitted>>
vars == <<pageVars, evalVars, callVars, formVars>>

\* JavaScript's truthiness of a number: x || y is y for 0, -0 and NaN
Truthy(v) == ~IsZero(v) /\ ~IsNaN(v)
\* x || y on numbers
OrElse(x, y) == IF Truthy(x) THEN x ELSE y
\* x || y on texts: the empty string is falsy
OrElseText(x, y) == IF x # <<>> /\ x # Null THEN x ELSE y

\* whether a sequence holds an item that is x
Holds(seq, x) == \E i \in 1..Len(seq) : seq[i] = x

\* a recomputation that leaves the costs as they are
costsKept(elements, parameters) == elements

\* calculateElementCosts(elements, parameters)
calculateElementCosts(elements, parameters) ==
    [i \in 1..Len(elements) |->
        LET el == elements[i]
            materialFormula ==
                OrElseText(el.formula, OrElseText(AllElements[el.element].formula, <<>>))
            laborFormula ==
                OrElseText(el.labor_formula,
                           OrElseText(AllElements[el.element].labor_formula, <<>>))
        IN  [el EXCEPT !.material_cost = evaluateFormula(materialFormula, parameters),
                       !.labor_cost = evaluateFormula(laborFormula, parameters)]]

\* the priced elements handleTemplateSelect makes of a template
elementsFromTemplate(template) ==
    calculateElementCosts(
        [i \in 1..Len(template.template_elements) |->
            LET templateElement == template.template_elements[i]
            IN  [element |-> templateElement.element,
                 module |-> templateElement.module,
                 formula |-> OrElseText(AllElements[templateElement.element].formula, <<>>),
                 labor_formula |->
                     OrElseText(AllElements[templateElement.element].labor_formula, <<>>),
                 material_cost |-> Num(0),
                 labor_cost |-> Num(0),
                 markup |-> OrElse(templateElement.markup, Num(10))]],
        template.parameters)

\* no toggle of an element on is under way
NoTrip == [stage |-> 0, element |-> 0, module |-> 0, before |-> <<>>]

\* one more user event, within the bound
Event ==
    steps < MaxSteps /\ steps' = steps + 1 /\ UNCHANGED <<evalVars, callVars, formVars>>

\* an event that is not a toggle of an element
Step == Event /\ roundTrip' = NoTrip

\* the record of round trips after a toggle of the pair of an element and a module
tripAfterToggle(trip, prev, elementId, module) ==
    IF \E i \in 1..Len(prev) : prev[i].element = elementId /\ prev[i].module = module
    THEN IF trip.stage = 1 /\ trip.element = elementId /\ trip.module = module
         THEN [trip EXCEPT !.stage = 2]
         ELSE NoTrip
    ELSE [stage |-> 1, element |-> elementId, module |-> module, before |-> prev]

handleTemplateSelect(t) ==
    /\ Step
    /\ selectedTemplate' = t
    /\ selectedModules' = AllTemplates[t].modules
    /\ selectedParameters' = AllTemplates[t].parameters
    /\ selectedElements' = elementsFromTemplate(AllTemplates[t])
    /\ UNCHANGED <<customModules, useGlobalMarkup, globalMarkupPercentage>>

\* a deselection that keeps the priced elements of the module
elementsKept(elements, modules, module) == elements

\* a selection that clears the priced elements
elementsCleared(elements, modules, module) ==
    IF Holds(modules, module)
    THEN LET Other(el) == el.module # module IN SelectSeq(elements, Other)
    ELSE <<>>

\* handleModuleToggle's new selectedElements: deselecting a module removes its elements
elementsAfterModuleToggle(elements, modules, module) ==
    IF Holds(modules, module)
    THEN LET Other(el) == el.module # module IN SelectSeq(elements, Other)
    ELSE elements

\* handleModuleToggle's new selectedModules
modulesAfterModuleToggle(modules, module) ==
    IF Holds(modules, module)
    THEN LET Other(m) == m # module IN SelectSeq(modules, Other)
    ELSE Append(modules, module)

handleModuleToggle(module) ==
    /\ Step
    /\ selectedElements' = elementsAfterModuleToggle(selectedElements, selectedModules, module)
    /\ selectedModules' = modulesAfterModuleToggle(selectedModules, module)
    /\ UNCHANGED <<selectedTemplate, customModules, selectedParameters, useGlobalMarkup,
                   globalMarkupPercentage>>

\* handleAddCustomModule: the module joins customModules unless it is there,
\* and handleModuleToggle runs on it either way
handleAddCustomModule(newModule) ==
    /\ Step
    /\ customModules' = IF Holds(customModules, newModule) THEN customModules
                        ELSE Append(customModules, newModule)
    /\ selectedElements' =
           elementsAfterModuleToggle(selectedElements, selectedModules, newModule)
    /\ selectedModules' = modulesAfterModuleToggle(selectedModules, newModule)
    /\ UNCHANGED <<selectedTemplate, selectedParameters, useGlobalMarkup,
                   globalMarkupPercentage>>

\* handleParameterValueUpdate's new selectedParameters
parametersAfterValueUpdate(parameters, parameterId, value) ==
    [i \in 1..Len(parameters) |->
        IF parameters[i].id = parameterId THEN [parameters[i] EXCEPT !.value = value]
        ELSE parameters[i]]

\* The trades tab shows an input for each selected parameter (trades-tab.tsx
\* lines 288-315), whose change calls handleParameterValueUpdate.
handleParameterValueUpdate(parameterId, value) ==
    /\ Step
    /\ \E i \in 1..Len(selectedParameters) : selectedParameters[i].id = parameterId
    /\ LET newParameters == parametersAfterValueUpdate(selectedParameters, parameterId, value)
       IN  /\ selectedParameters' = newParameters
           /\ selectedElements' = calculateElementCosts(selectedElements, newParameters)
    /\ UNCHANGED <<selectedTemplate, selectedModules, customModules, useGlobalMarkup,
                   globalMarkupPercentage>>

\* handleParameterToggle's new selectedParameters
parametersAfterToggle(parameters, parameter) ==
    IF \E i \in 1..Len(parameters) : parameters[i].id = parameter.id
    THEN LET Other(p) == p.id # parameter.id IN SelectSeq(parameters, Other)
    ELSE Append(parameters, parameter)

handleParameterToggle(parameter) ==
    /\ Step
    /\ LET newParameters == parametersAfterToggle(selectedParameters, parameter)
       IN  /\ selectedParameters' = newParameters
           /\ selectedElements' = calculateElementCosts(selectedElements, newParameters)
    /\ UNCHANGED <<selectedTemplate, selectedModules, customModules, useGlobalMarkup,
                   globalMarkupPercentage>>

\* whether a priced element is the one of an element id and a module
IsPair(el, elementId, module) == el.element = elementId /\ el.module = module

\* a toggle that prices the pair whether or not it is priced
elementsWithOneMore(prev, element, module, parameters) ==
    Append(prev, [element |-> element.id,
                  module |-> module,
                  formula |-> OrElseText(element.formula, <<>>),
                  labor_formula |-> OrElseText(element.labor_formula, <<>>),
                  material_cost |-> Num(0),
                  labor_cost |-> Num(0),
                  markup |-> Num(10)])

\* the priced element of a toggle
newElement(element, module, parameters) ==
    [element |-> element.id,
     module |-> module,
     formula |-> OrElseText(element.formula, <<>>),
     labor_formula |-> OrElseText(element.labor_formula, <<>>),
     material_cost |-> evaluateFormula(OrElseText(element.formula, <<>>), parameters),
     labor_cost |-> evaluateFormula(OrElseText(element.labor_formula, <<>>), parameters),
     markup |-> Num(10)]

\* a toggle that puts the new priced element first
elementsWithNewFirst(prev, element, module, parameters) ==
    IF \E i \in 1..Len(prev) : IsPair(prev[i], element.id, module)
    THEN LET Other(e) == ~IsPair(e, element.id, module) IN SelectSeq(prev, Other)
    ELSE <<newElement(element, module, parameters)>> \o prev

\* a toggle that removes the element from every module
elementsWithoutElement(prev, element, module, parameters) ==
    IF \E i \in 1..Len(prev) : IsPair(prev[i], element.id, module)
    THEN LET Other(e) == e.element # element.id IN SelectSeq(prev, Other)
    ELSE Append(prev, newElement(element, module, parameters))

\* a toggle that removes every priced element of the module
elementsWithoutModule(prev, element, module, parameters) ==
    IF \E i \in 1..Len(prev) : IsPair(prev[i], element.id, module)
    THEN LET Other(e) == e.module # module IN SelectSeq(prev, Other)
    ELSE Append(prev, newElement(element, module, parameters))

\* handleElementToggle's new selectedElements
elementsAfterToggle(prev, element, module, parameters) ==
    IF \E i \in 1..Len(prev) : IsPair(prev[i], element.id, module)
    THEN LET Other(e) == ~IsPair(e, element.id, module) IN SelectSeq(prev, Other)
    ELSE LET formula == OrElseText(element.formula, <<>>)
             labor_formula == OrElseText(element.labor_formula, <<>>)
         IN  Append(prev, [element |-> element.id,
                           module |-> module,
                           formula |-> formula,
                           labor_formula |-> labor_formula,
                           material_cost |-> evaluateFormula(formula, parameters),
                           labor_cost |-> evaluateFormula(labor_formula, parameters),
                           markup |-> Num(10)])

handleElementToggle(element, module) ==
    /\ Event
    /\ roundTrip' = tripAfterToggle(roundTrip, selectedElements, element.id, module)
    /\ selectedElements' = elementsAfterToggle(selectedElements, element, module,
                                               selectedParameters)
    /\ UNCHANGED <<selectedTemplate, selectedModules, customModules, selectedParameters,
                   useGlobalMarkup, globalMarkupPercentage>>

\* handleElementValueUpdate's new selectedElements.  field is "formula",
\* "labor_formula" or "markup"; formula is the text of a formula edit and
\* value the number of a markup edit.
elementsAfterValueUpdate(prev, elementId, module, field, formula, value, parameters) ==
    LET newElements ==
            [i \in 1..Len(prev) |->
                IF IsPair(prev[i], elementId, module)
                THEN IF field = "formula" THEN [prev[i] EXCEPT !.formula = formula]
                     ELSE IF field = "labor_formula"
                          THEN [prev[i] EXCEPT !.labor_formula = formula]
                     ELSE [prev[i] EXCEPT !.markup = value]
                ELSE prev[i]]
    IN  IF field \in {"formula", "labor_formula"}
        THEN calculateElementCosts(newElements, parameters)
        ELSE newElements

handleElementValueUpdate(elementId, module, field, formula, value) ==
    /\ Step
    /\ selectedElements' = elementsAfterValueUpdate(selectedElements, elementId, module,
                                                    field, formula, value, selectedParameters)
    /\ UNCHANGED <<selectedTemplate, selectedModules, customModules, selectedParameters,
                   useGlobalMarkup, globalMarkupPercentage>>

\* handleMarkupChange of the trades tab, with markupValue = parseFloat(value)
\* a number that is not NaN
handleMarkupChange(elementId, moduleId, markupValue) ==
    handleElementValueUpdate(elementId, moduleId, "markup", <<>>, markupValue)

handleGlobalMarkupChange(isUse, percentage) ==
    /\ Step
    /\ useGlobalMarkup' = isUse
    /\ globalMarkupPercentage' = percentage
    /\ UNCHANGED <<selectedTemplate, selectedModules, customModules, selectedParameters,
                   selectedElements>>

\* The trades tab's copies globalMarkup and useGlobalMarkup follow the page's
\* state (the effect of trades-tab.tsx lines 139-146 runs before the next
\* event), so its two handlers read the page's values.
handleGlobalMarkupValueChange(value) ==
    handleGlobalMarkupChange(useGlobalMarkup, OrElse(value, Num(0)))

handleUseGlobalMarkupChange(isUsed) ==
    handleGlobalMarkupChange(isUsed, globalMarkupPercentage)

\* no call of evaluateFormula made
NotRun == [done |-> FALSE, result |-> Num(0), executed |-> FALSE, substituted |-> FALSE,
           raised |-> FALSE, text |-> <<>>, globals |-> NoGlobals]

(***************************************************************************)
(* The cost aggregation of the trades tab (trades-tab.tsx) and the         *)
(* elements of the submitted payload (handleSubmit).  The tab's copies     *)
(* useGlobalMarkup and globalMarkup equal the page's state.                *)
(***************************************************************************)
\* (materialCost + laborCost) * (1 + markup / 100)
Subtotal(materialCost, laborCost, markup) ==
    Mul(Add(materialCost, laborCost), Add(Num(1), Div(markup, Num(100))))

\* useGlobalMarkup ? globalMarkup : (element.markup || 10)
markupOf(element, useGlobal, globalMarkup) ==
    IF useGlobal THEN globalMarkup ELSE OrElse(element.markup, Num(10))

\* a grand total of the first priced element alone
reduceFirst(elements, i, total, useGlobal, globalMarkup) ==
    IF elements = <<>> THEN total
    ELSE Add(total, Subtotal(elements[1].material_cost, elements[1].labor_cost,
                             markupOf(elements[1], useGlobal, globalMarkup)))

\* selectedElements.reduce((total, element) => total + subtotal, total) from
\* element i on; material_cost and labor_cost are of type number
RECURSIVE reduceTotal(_, _, _, _, _)
reduceTotal(elements, i, total, useGlobal, globalMarkup) ==
    IF i > Len(elements) THEN total
    ELSE reduceTotal(elements, i + 1,
                     Add(total, Subtotal(elements[i].material_cost, elements[i].labor_cost,
                                         markupOf(elements[i], useGlobal, globalMarkup))),
                     useGlobal, globalMarkup)

\* calculateTotalCost(): the grand total
calculateTotalCost == reduceTotal(selectedElements, 1, Num(0), useGlobalMarkup,
                                  globalMarkupPercentage)

\* the total shown in the row of a priced element: costs as Number(cost) || 0
elementTotal(element, useGlobal, globalMarkup) ==
    Subtotal(OrElse(element.material_cost, Num(0)), OrElse(element.labor_cost, Num(0)),
             markupOf(element, useGlobal, globalMarkup))

\* moduleElements.reduce((total, element) => total + elementTotal, total) from
\* element i on
RECURSIVE reduceSubtotal(_, _, _, _, _)
reduceSubtotal(elements, i, total, useGlobal, globalMarkup) ==
    IF i > Len(elements) THEN total
    ELSE reduceSubtotal(elements, i + 1,
                        Add(total, elementTotal(elements[i], useGlobal, globalMarkup)),
                        useGlobal, globalMarkup)

\* the priced elements the tab shows under a module
moduleElements(module) ==
    LET OfModule(el) == el.module = module IN SelectSeq(selectedElements, OfModule)

\* filteredModules: the modules the tab lists
filteredModules == selectedModules \o customModules

\* the module subtotal the tab shows
moduleSubtotal(module) ==
    reduceSubtotal(moduleElements(module), 1, Num(0), useGlobalMarkup,
                   globalMarkupPercentage)

\* the integer part of a finite number, towards zero
Trunc(v) == IF v.n < 0 THEN Num(-((-v.n) \div Den(v))) ELSE Num(v.n \div Den(v))

\* parseInt(markup.toString()) || 0: the digits before the decimal point
parseIntOrZero(v) == IF IsFinite(v) THEN OrElse(Trunc(v), Num(0)) ELSE Num(0)

\* parseFloat(cost.toString()) || 0
parseFloatOrZero(v) == OrElse(v, Num(0))

\* formattedElements of handleSubmit: what the payload holds of each element
formattedElements ==
    [i \in 1..Len(selectedElements) |->
        LET el == selectedElements[i]
        IN  [formula |-> OrElseText(el.formula, <<>>),
             labor_formula |-> OrElseText(el.labor_formula, <<>>),
             markup |-> parseIntOrZero(IF useGlobalMarkup THEN globalMarkupPercentage
                                       ELSE el.markup),
             material_cost |-> parseFloatOrZero(el.material_cost),
             labor_cost |-> parseFloatOrZero(el.labor_cost),
             element |-> el.element,
             module |-> el.module]]

\* a text without the spaces it starts with
RECURSIVE TrimLeft(_)
TrimLeft(text) == IF text # <<>> /\ Head(text) = " " THEN TrimLeft(Tail(text)) ELSE text

\* a text without the spaces it ends with
RECURSIVE TrimRight(_)
TrimRight(text) ==
    IF text # <<>> /\ text[Len(text)] = " " THEN TrimRight(SubSeq(text, 1, Len(text) - 1))
    ELSE text

\* the position after a sign at position i, i when there is none
AfterSign(text, i) == IF CharAt(text, i) \in {"+", "-"} THEN i + 1 ELSE i

\* The end of the decimal literal whose digits start at position s and whose
\* integer digits end before j: the position after it, 0 when text[s..] does
\* not start with a decimal literal (digits, digits and a fraction, or a
\* fraction alone).
FractionEnd(text, s, j) ==
    IF CharAt(text, j) = "."
    THEN IF j > s \/ DigitsEnd(text, j + 1) > j + 1 THEN DigitsEnd(text, j + 1) ELSE 0
    ELSE IF j > s THEN j ELSE 0

\* the position after the longest signed decimal literal that text starts
\* with, 0 when it starts with none
DecimalEnd(text) ==
    FractionEnd(text, AfterSign(text, 1), DigitsEnd(text, AfterSign(text, 1)))

\* the value of the signed decimal literal text[1..e-1], s the position of
\* its first digit or dot
DecimalValue(text, s, e) ==
    IF Head(text) = "-" THEN Neg(LiteralValue(text, s, DigitsEnd(text, s), e, FALSE))
    ELSE LiteralValue(text, s, DigitsEnd(text, s), e, FALSE)

\* the number a text that starts with a decimal literal starts with
PrefixValue(text, e) == IF e = 0 THEN NaN ELSE DecimalValue(text, AfterSign(text, 1), e)

\* parseFloat(string): the number the string starts with after its leading
\* spaces, NaN when it starts with none
parseFloat(text) == PrefixValue(TrimLeft(text), DecimalEnd(TrimLeft(text)))

\* the number a trimmed text is: 0 for the empty text, NaN for a text that
\* is no decimal literal as a whole
WholeValue(text, e) ==
    IF text = <<>> THEN Num(0)
    ELSE IF e = Len(text) + 1 THEN DecimalValue(text, AfterSign(text, 1), e)
    ELSE NaN

\* Number(string)
NumberOf(text) ==
    WholeValue(TrimRight(TrimLeft(text)), DecimalEnd(TrimRight(TrimLeft(text))))

\* A value of the payload: a number or a string.
NumberValue(v) == [isNumber |-> TRUE, number |-> v, text |-> <<>>]
StringValue(text) == [isNumber |-> FALSE, number |-> Num(0), text |-> text]

\* paramValue of handleSubmit: a string that Number does not read as NaN is
\* replaced by parseFloat of it.  The value of a parameter is kept as its
\* text, and a value that is a number has the text of its decimal notation,
\* which parseFloat reads as that number.
paramValue(value) ==
    IF ~IsNaN(NumberOf(value)) THEN NumberValue(parseFloat(value)) ELSE StringValue(value)

\* formattedParameters of handleSubmit: what the payload holds of each parameter
formattedParameters ==
    [i \in 1..Len(selectedParameters) |->
        [id |-> selectedParameters[i].id,
         name |-> selectedParameters[i].name,
         value |-> paramValue(selectedParameters[i].value)]]

\* the page as CreateProposal first renders it
InitPage ==
    /\ selectedTemplate = 0
    /\ selectedModules = <<>>
    /\ customModules = <<>>
    /\ selectedParameters = <<>>
    /\ selectedElements = <<>>
    /\ useGlobalMarkup = FALSE
    /\ globalMarkupPercentage = Num(10)
    /\ steps = 0
    /\ roundTrip = NoTrip

\* the fields of the proposal details
DetailFields == {"name", "description", "client_name", "client_email", "phone_number",
                 "address", "image"}

\* the proposal details as CreateProposal first renders them
NoDetails == [field \in DetailFields |-> <<>>]

\* the form as CreateProposal first renders it
InitForm ==
    /\ activeTab = "template"
    /\ isSubmitting = FALSE
    /\ errors = [path \in {} |-> ""]
    /\ proposalDetails = NoDetails
    /\ pendingReads = <<>>
    /\ submitted = <<>>

\* no call of evaluateFormula made on the page
InitCalls ==
    /\ globals = NoGlobals
    /\ calls = <<>>

Init ==
    /\ InitPage
    /\ InitCalls
    /\ InitForm
    /\ formulaTokens = <<>>
    /\ evalParameters = <<>>
    /\ evalOutcome = NotRun

\* The page hands handleElementValueUpdate to the trades tab, which lists the
\* priced elements (trades-tab.tsx lines 424-500): an edit is made on one of
\* the priced elements.
EditFormula ==
    \E i \in 1..Len(selectedElements), field \in {"formula", "labor_formula"},
       formula \in EditFormulas :
        handleElementValueUpdate(selectedElements[i].element, selectedElements[i].module,
                                 field, formula, Num(0))

EditMarkup ==
    \E i \in 1..Len(selectedElements), value \in MarkupValues :
        handleMarkupChange(selectedElements[i].element, selectedElements[i].module, value)

Next ==
    \/ \E t \in DOMAIN AllTemplates : handleTemplateSelect(t)
    \/ \E m \in AllModules : handleModuleToggle(m)
    \/ \E m \in AllModules : handleAddCustomModule(m)
    \/ \E p \in DOMAIN AllParameters : handleParameterToggle(AllParameters[p])
    \/ \E p \in DOMAIN AllParameters, value \in ParamValues :
           handleParameterValueUpdate(p, value)
    \/ \E e \in DOMAIN AllElements, m \in AllModules : handleElementToggle(AllElements[e], m)
    \/ EditFormula
    \/ EditMarkup
    \/ \E value \in GlobalMarkupValues : handleGlobalMarkupValueChange(value)
    \/ handleUseGlobalMarkupChange(~useGlobalMarkup)

Spec == Init /\ [][Next]_vars

(***************************************************************************)
(* evaluateFormula as a function of its arguments: every formula written   *)
(* with at most MaxTokens tokens, on every parameter list of EvalLists.    *)
(***************************************************************************)
\* the tokens a formula is written with: names, a literal, operators, a
\* space, and the semicolon, which is no part of an expression
EvalTokens == {<<"a">>, <<"w">>, <<"u">>, <<"2">>, <<"+">>, <<"-">>, <<"*">>,
               <<"/">>, <<"(">>, <<")">>, <<" ">>, <<";">>}
MaxTokens == 3

\* the parameters of a call: a is 5 or the text w; w is 0, 3 or -2; aw, whose
\* name holds the names a and w, is 7; and a parameter whose name is "("
EvalParameters ==
    {[name |-> <<"a">>, value |-> v] : v \in {<<"5">>, <<"w">>}}
        \cup {[name |-> <<"w">>, value |-> v] : v \in {<<"0">>, <<"3">>, <<"-", "2">>}}
        \cup {[name |-> <<"a", "w">>, value |-> <<"7">>],
              [name |-> <<"(">>, value |-> <<"5">>]}

\* the parameter lists: at most two parameters, no name twice, in either order
EvalLists ==
    {<<>>} \cup {<<p>> : p \in EvalParameters}
        \cup {pq \in EvalParameters \X EvalParameters : pq[1].name # pq[2].name}

\* the formulas of a call: the texts of at most MaxTokens tokens, and the
\* formula that is null
EvalFormulas == UNION {[1..n -> EvalTokens] : n \in 0..MaxTokens} \cup {<<Null>>}

FormulaText == Concat(formulaTokens)

InitEval ==
    /\ InitPage
    /\ InitCalls
    /\ InitForm
    /\ formulaTokens \in EvalFormulas
    /\ evalParameters \in EvalLists
    /\ evalOutcome = NotRun

\* the call evaluateFormula(formula, parameters)
Evaluate ==
    /\ ~evalOutcome.done
    /\ evalOutcome' = evaluateFormulaRun(FormulaText, evalParameters)
    /\ UNCHANGED <<pageVars, callVars, formVars, formulaTokens, evalParameters>>

NextEval == Evaluate

SpecEval == InitEval /\ [][NextEval]_vars

(***************************************************************************)
(* The calls of evaluateFormula of one page: each call runs on the global  *)
(* object the calls before it left.                                        *)
(***************************************************************************)
\* the formulas of the calls: a name of JavaScript read, assigned and used
\* in a product, a parameter's name, and a literal
CallFormulas == {<<"$">>, <<"$", "=", "2">>, <<"$", "*", "a">>, <<"a", "+", "2">>, <<"2">>}
\* the parameter lists of the calls
CallLists == {<<>>, <<[name |-> <<"a">>, value |-> <<"5">>]>>}
\* how many calls the page makes
MaxCalls == 3

\* the call made, with its run
Called(formula, parameters, run) ==
    /\ calls' = Append(calls, [formula |-> formula, parameters |-> parameters,
                               result |-> run.result])
    /\ globals' = run.globals

\* one more call evaluateFormula(formula, parameters)
Call(formula, parameters) ==
    /\ Len(calls) < MaxCalls
    /\ Called(formula, parameters, evaluateFormulaIn(formula, parameters, globals))
    /\ UNCHANGED <<pageVars, evalVars, formVars>>

NextCalls == \E formula \in CallFormulas, parameters \in CallLists : Call(formula, parameters)

SpecCalls == Init /\ [][NextCalls]_vars

(***************************************************************************)
(* The form of the page: the proposal details tab                          *)
(* (proposal-details-tab.tsx), whose onChange is setProposalDetails, and   *)
(* handleSubmit.  A server that rejects a submission leaves the page as it *)
(* is, so handleSubmit can run again.                                      *)
(***************************************************************************)
\* the text a user types into a text field of the details
FieldValues == {<<"B">>}
\* the text a user types into the phone field
PhoneInputs == {<<"5", "a">>}
\* the image files a user chooses: the data URL its read gives, and whether
\* it is larger than 5MB
ImageFiles == {[result |-> <<"D">>, large |-> FALSE], [result |-> <<"D">>, large |-> TRUE]}
\* how many events on the form a run of the model holds, and how many reads
\* of a file are under way at once
MaxFormSteps == 3
MaxReads == 1

\* the details with every required field filled in
Filled == [field \in DetailFields |-> IF field = "image" THEN <<>> ELSE <<"A">>]

\* the details a run of the form starts with: those of the first page, and
\* details a user has typed in, all of them or all but the name
DetailsAtStart == {NoDetails, Filled, [Filled EXCEPT !["name"] = <<>>]}

selectionVars == <<selectedTemplate, selectedModules, customModules, selectedParameters,
                   selectedElements, useGlobalMarkup, globalMarkupPercentage, roundTrip>>

\* one more event on the form, within the bound
FormEvent ==
    /\ steps < MaxFormSteps
    /\ steps' = steps + 1
    /\ UNCHANGED <<selectionVars, evalVars, callVars>>

\* handleInputChange: onChange({ ...value, [name]: inputValue })
handleInputChange(name, inputValue) ==
    /\ FormEvent
    /\ proposalDetails' = [proposalDetails EXCEPT ![name] = inputValue]
    /\ UNCHANGED <<activeTab, isSubmitting, errors, pendingReads, submitted>>

\* [\d\s\-\+\(\)\.]
IsPhoneChar(c) == c \in Digits \cup {" ", "-", "+", "(", ")", "."}

\* handlePhoneInput: the characters that are no part of a phone number are
\* removed
handlePhoneInput(inputValue) ==
    /\ FormEvent
    /\ proposalDetails' =
           [proposalDetails EXCEPT !["phone_number"] = SelectSeq(inputValue, IsPhoneChar)]
    /\ UNCHANGED <<activeTab, isSubmitting, errors, pendingReads, submitted>>

\* the reads under way once a file is chosen: reader.onload is made with the
\* value the tab was rendered with
readsAfterChoice(reads, value, file) ==
    IF file.large THEN reads ELSE Append(reads, [value |-> value, result |-> file.result])

\* The onChange of the file input, which the tab shows while the details
\* have no image: a file of more than 5MB is refused with an alert, any
\* other file is read.
handleImageChange(file) ==
    /\ FormEvent
    /\ proposalDetails["image"] = <<>>
    /\ Len(pendingReads) < MaxReads
    /\ pendingReads' = readsAfterChoice(pendingReads, proposalDetails, file)
    /\ UNCHANGED <<activeTab, isSubmitting, errors, proposalDetails, submitted>>

\* the details reader.onload hands to onChange: { ...value, image: result || "" }
detailsAfterRead(details, read) ==
    [read.value EXCEPT !["image"] = OrElseText(read.result, <<>>)]

\* reader.onload: the read k completes
readerOnload(k) ==
    /\ FormEvent
    /\ proposalDetails' = detailsAfterRead(proposalDetails, pendingReads[k])
    /\ pendingReads' = SubSeq(pendingReads, 1, k - 1)
                           \o SubSeq(pendingReads, k + 1, Len(pendingReads))
    /\ UNCHANGED <<activeTab, isSubmitting, errors, submitted>>

\* the button that removes the image: onChange({ ...value, image: "" })
removeImage ==
    /\ FormEvent
    /\ proposalDetails["image"] # <<>>
    /\ proposalDetails' = [proposalDetails EXCEPT !["image"] = <<>>]
    /\ UNCHANGED <<activeTab, isSubmitting, errors, pendingReads, submitted>>

\* the tabs' onValueChange
setActiveTab(tab) ==
    /\ FormEvent
    /\ activeTab' = tab
    /\ UNCHANGED <<isSubmitting, errors, proposalDetails, pendingReads, submitted>>

\* the fields a proposal requires, in the order of the form
RequiredFields == <<"name", "description", "client_name", "client_email", "phone_number",
                    "address">>

\* validateProposalForm(formData): the errors of the form data, one for each
\* required field that is missing, each with the path of its field; the
\* validation succeeds when there is none
validateProposalForm(formData) ==
    LET Missing(field) == formData[field] = <<>>
    IN  [i \in 1..Len(SelectSeq(RequiredFields, Missing)) |->
            [path |-> SelectSeq(RequiredFields, Missing)[i], message |-> "required"]]

\* newErrors: the message of each error under its path
newErrors(validationErrors) ==
    [path \in {validationErrors[i].path : i \in 1..Len(validationErrors)} |->
        (CHOOSE e \in {validationErrors[i] : i \in 1..Len(validationErrors)} :
            e.path = path).message]

\* the tab handleSubmit shows for the first error: the details for a path
\* that includes "name", "client", "address" or "description", the tab shown
\* otherwise (no path of the details includes "selected")
tabOfError(tab, errorPath) ==
    IF errorPath \in {"name", "description", "client_name", "client_email", "address"}
    THEN "details"
    ELSE tab

\* the payload of handleSubmit
payload ==
    [id |-> selectedTemplate,
     name |-> proposalDetails["name"],
     title |-> proposalDetails["name"],
     description |-> proposalDetails["description"],
     clientName |-> proposalDetails["client_name"],
     clientEmail |-> proposalDetails["client_email"],
     clientPhone |-> proposalDetails["phone_number"],
     clientAddress |-> proposalDetails["address"],
     image |-> proposalDetails["image"],
     parameters |-> formattedParameters,
     template_elements |-> formattedElements]

\* a submission that does not look at the validation
submittedAnyway(validationErrors, sent, data) == Append(sent, data)

\* the payloads handed to submitProposal once handleSubmit has run
submittedAfter(validationErrors, sent, data) ==
    IF validationErrors # <<>> THEN sent ELSE Append(sent, data)

\* handleSubmit, with the errors of the validation: on errors they are
\* recorded and the tab of the first is shown; otherwise the payload is
\* handed to submitProposal.  isSubmitting is set at the start and reset
\* before handleSubmit returns on either way.
handleSubmitWith(validationErrors) ==
    /\ FormEvent
    /\ isSubmitting' = FALSE
    /\ errors' = newErrors(validationErrors)
    /\ activeTab' = IF validationErrors # <<>>
                    THEN tabOfError(activeTab, validationErrors[1].path)
                    ELSE activeTab
    /\ submitted' = submittedAfter(validationErrors, submitted, payload)
    /\ UNCHANGED <<proposalDetails, pendingReads>>

handleSubmit == handleSubmitWith(validateProposalForm(proposalDetails))

\* the form at the start of a run
InitDetails ==
    /\ InitPage
    /\ InitCalls
    /\ activeTab = "template"
    /\ isSubmitting = FALSE
    /\ errors = [path \in {} |-> ""]
    /\ proposalDetails \in DetailsAtStart
    /\ pendingReads = <<>>
    /\ submitted = <<>>
    /\ formulaTokens = <<>>
    /\ evalParameters = <<>>
    /\ evalOutcome = NotRun

NextForm ==
    \/ \E name \in {"name", "description", "client_name", "client_email", "address"},
          inputValue \in FieldValues : handleInputChange(name, inputValue)
    \/ handleInputChange("name", <<>>)
    \/ \E inputValue \in PhoneInputs : handlePhoneInput(inputValue)
    \/ \E file \in ImageFiles : handleImageChange(file)
    \/ \E k \in 1..Len(pendingReads) : readerOnload(k)
    \/ removeImage
    \/ \E tab \in {"template", "details", "trades"} : setActiveTab(tab)
    \/ handleTemplateSelect(1)
    \/ handleSubmit

SpecForm == InitDetails /\ [][NextForm]_vars

(***************************************************************************)
(* Properties of evaluateFormula, stated on SpecEval.                      *)
(***************************************************************************)
\* what the text handed to new Function evaluates to
RawOutcome == RunFunction(evalOutcome.text)

\* C2: whenever the evaluated expression yields a number that is not finite
\* (Infinity, -Infinity or NaN, as in 10/x with x = 0 or in 0/0),
\* evaluateFormula returns 0.
C2_NonFiniteGivesZero ==
    (evalOutcome.done /\ evalOutcome.executed /\ RawOutcome.k = "value"
        /\ ~IsFinite(RawOutcome.v))
    => evalOutcome.result = Num(0)

\* the position of the last character of the word that starts at position i
RECURSIVE WordEnd(_, _)
WordEnd(text, i) == IF WordAt(text, i + 1) THEN WordEnd(text, i + 1) ELSE i

\* the identifier-like names of a text: its maximal words that start with a
\* letter
IdentifiersOf(text) ==
    {SubSeq(text, i, WordEnd(text, i)) :
        i \in {j \in 1..Len(text) : IsIdentStart(text[j]) /\ ~WordAt(text, j - 1)}}

\* the names of a parameter list
NamesOf(parameters) == {parameters[i].name : i \in 1..Len(parameters)}

\* the characters of a text at positions i and i + 1
PairAt(text, i) == <<text[i], text[i + 1]>>

\* a text that writes no operator other than + - * / : no comment, no power,
\* no increment and no decrement
PlainOperators(text) ==
    \A i \in 1..(Len(text) - 1) :
        PairAt(text, i) \notin {<<"/", "/">>, <<"/", "*">>, <<"*", "*">>,
                                <<"+", "+">>, <<"-", "-">>}

\* the parameters with each value written in parentheses, which binds a name
\* to its value as one operand
Bound(parameters) ==
    [i \in 1..Len(parameters) |->
        [parameters[i] EXCEPT !.value = <<"(">> \o parameters[i].value \o <<")">>]]

\* the arithmetic value of a formula with each name bound to its value
ArithmeticValue(formula, parameters) == RunFunction(Substitute(formula, Bound(parameters)))

\* a name that is an identifier-like token: a letter, then word characters
IsName(name) ==
    /\ name # <<>>
    /\ IsIdentStart(name[1])
    /\ \A i \in 1..Len(name) : IsWordChar(name[i])

\* the text of a number: an optional sign, then digits
IsNumeric(value) ==
    /\ value # <<>>
    /\ value[Len(value)] \in Digits
    /\ \A i \in 1..Len(value) : value[i] \in Digits \/ (i = 1 /\ value[i] = "-")

\* a formula of names of the parameters, literals, + - * / and parentheses
\* that has a finite arithmetic value
IsArithmetic(formula, parameters, value) ==
    /\ \A i \in 1..Len(parameters) :
           /\ IsName(parameters[i].name)
           /\ IsNumeric(parameters[i].value)
    /\ IdentifiersOf(formula) \subseteq NamesOf(parameters)
    /\ \A i \in 1..Len(formula) : formula[i] # ";"
    /\ PlainOperators(formula)
    /\ value.k = "value"
    /\ IsFinite(value.v)

\* the result of a call on an arithmetic formula is the formula's value
ResultIsValue(formula, parameters, value) ==
    IsArithmetic(formula, parameters, value) => evalOutcome.result = value.v

\* C9: for numeric parameters (positive, zero or negative) and a formula built
\* from their names, literals, + - * / and parentheses, evaluateFormula
\* returns the arithmetic value of the formula with each name bound to its
\* value, however the formula is spaced.
C9_ReturnsArithmeticValue ==
    evalOutcome.done
    => ResultIsValue(FormulaText, evalParameters,
                     ArithmeticValue(FormulaText, evalParameters))

\* the identifier-like names of the formula that no parameter has
UnknownNames == IdentifiersOf(FormulaText) \ NamesOf(evalParameters)

\* C10: a formula that references an identifier-like name no parameter has
\* makes evaluateFormula return 0 without evaluating any part of the formula.
C10_UnknownNameGivesZero ==
    (evalOutcome.done /\ UnknownNames # {})
    => (evalOutcome.result = Num(0) /\ ~evalOutcome.executed)

\* a call on a formula with an unknown name and a known one, whose value the
\* substitution wrote into the text
C10_Witness ==
    /\ evalOutcome.done
    /\ UnknownNames # {}
    /\ IdentifiersOf(FormulaText) \cap NamesOf(evalParameters) # {}
    /\ evalOutcome.text # FormulaText
    /\ ~evalOutcome.executed

\* the text from position i on, with value in place of each maximal word that
\* is name; j is the end of the word that starts at i
RECURSIVE ReplaceWordsFrom(_, _, _, _)
ReplaceWord(text, name, value, i, j) ==
    (IF SubSeq(text, i, j) = name THEN value ELSE SubSeq(text, i, j))
        \o ReplaceWordsFrom(text, name, value, j + 1)

ReplaceWordsFrom(text, name, value, i) ==
    IF i > Len(text) THEN <<>>
    ELSE IF WordAt(text, i) THEN ReplaceWord(text, name, value, i, WordEnd(text, i))
    ELSE <<text[i]>> \o ReplaceWordsFrom(text, name, value, i + 1)

\* the text with the whole-token occurrences of each parameter's name, and
\* nothing else, replaced by its value, one parameter after the other
RECURSIVE ReplaceWholeTokens(_, _)
ReplaceWholeTokens(text, parameters) ==
    IF parameters = <<>> THEN text
    ELSE ReplaceWholeTokens(
             ReplaceWordsFrom(text, Head(parameters).name, Head(parameters).value, 1),
             Tail(parameters))

\* every parameter of the call has an identifier-like name
NamesValid == \A i \in 1..Len(evalParameters) : IsName(evalParameters[i].name)

\* C11: substitution replaces every whole-token occurrence of a parameter
\* name by the parameter's value and alters nothing else: an identifier that
\* holds a parameter's name as a proper prefix, suffix or infix stays as it is.
C11_WholeTokensReplaced ==
    (evalOutcome.done /\ ~IsAbsent(FormulaText) /\ NamesValid)
    => evalOutcome.text = ReplaceWholeTokens(FormulaText, evalParameters)

\* a call whose formula holds the identifier aw, with parameters a and aw in
\* this order: aw is replaced by 7 and the a of aw is not replaced by 5
C11_Witness ==
    /\ evalOutcome.done
    /\ Len(evalParameters) = 2
    /\ evalParameters[1] = [name |-> <<"a">>, value |-> <<"5">>]
    /\ evalParameters[2].name = <<"a", "w">>
    /\ FormulaText = <<"-", "a", "w">>
    /\ evalOutcome.text = <<"-", "7">>
    /\ evalOutcome.result = Num(-7)

\* the orders of a list
Orders(seq) ==
    {[i \in 1..Len(seq) |-> seq[f[i]]] :
        f \in {g \in [1..Len(seq) -> 1..Len(seq)] :
                  \A i, j \in 1..Len(seq) : g[i] = g[j] => i = j}}

\* C12: evaluateFormula returns the same result for every order of the
\* parameter list, also when the text of one parameter's value holds the name
\* of another parameter.
C12_OrderIndependent ==
    evalOutcome.done
    => \A parameters \in Orders(evalParameters) :
           evaluateFormula(FormulaText, parameters) = evalOutcome.result

\* the numbers: the rationals, the two infinities, NaN and -0
Numbers == [n : Int, d : Int]

\* the call ended on a text that is no expression: new Function threw
Malformed == evalOutcome.executed /\ RawOutcome.k = "throw"

\* C13: evaluateFormula never raises to its caller and returns a number, for
\* every formula text and every parameter list (names that are no pattern and
\* values that are no number included); a malformed expression yields 0.
C13_NeverRaises ==
    evalOutcome.done
    => /\ ~evalOutcome.raised
       /\ evalOutcome.result \in Numbers
       /\ Malformed => evalOutcome.result = Num(0)
       /\ ~NamesValid /\ ~IsAbsent(FormulaText) => evalOutcome.result = Num(0)

\* a call that substituted a parameter whose value is a text and then came to
\* a parameter whose name is no pattern
C13_Witness ==
    /\ evalOutcome.done
    /\ ~IsAbsent(FormulaText)
    /\ Len(evalParameters) = 2
    /\ ~IsNumeric(evalParameters[1].value)
    /\ PatternThrows(evalParameters[2].name)
    /\ evalOutcome.text # FormulaText
    /\ evalOutcome.result = Num(0)

\* C14: for a formula that is null, undefined or the empty string,
\* evaluateFormula returns 0 for every parameter list, without substituting
\* and without evaluating.
C14_AbsentGivesZero ==
    (evalOutcome.done /\ FormulaText \in {Null, <<>>})
    => /\ evalOutcome.result = Num(0)
       /\ ~evalOutcome.substituted
       /\ ~evalOutcome.executed

\* a call on the null formula with two parameters
C14_Witness ==
    /\ evalOutcome.done
    /\ FormulaText = Null
    /\ Len(evalParameters) = 2
    /\ evalOutcome.result = Num(0)

(***************************************************************************)
(* Properties of the proposal page, stated on Spec.                        *)
(***************************************************************************)
\* the costs of a priced element are the evaluator's output for its formulas
CostsOfFormulas(el, parameters) ==
    /\ el.material_cost = evaluateFormula(el.formula, parameters)
    /\ el.labor_cost = evaluateFormula(el.labor_formula, parameters)

\* C1: in every state, each priced element's material_cost is evaluateFormula
\* of its current formula and its labor_cost is evaluateFormula of its current
\* labor_formula, on the current selected parameters, also after a formula
\* was edited to the empty string.
C1_CostsFollowFormulas ==
    \A i \in 1..Len(selectedElements) :
        CostsOfFormulas(selectedElements[i], selectedParameters)

\* the markup the specification gives an element: the global percentage under
\* the override, the element's own markup otherwise
effectiveMarkup(element, useGlobal, globalMarkup) ==
    IF useGlobal THEN globalMarkup ELSE element.markup

\* the sum of (material_cost + labor_cost) * (1 + effectiveMarkup / 100) over
\* the elements from element i on
RECURSIVE sumOfTotals(_, _, _, _)
sumOfTotals(elements, i, useGlobal, globalMarkup) ==
    IF i > Len(elements) THEN Num(0)
    ELSE Add(Subtotal(elements[i].material_cost, elements[i].labor_cost,
                      effectiveMarkup(elements[i], useGlobal, globalMarkup)),
             sumOfTotals(elements, i + 1, useGlobal, globalMarkup))

\* the three totals of the trades tab are the sums under the effective markup
TotalsUseEffectiveMarkup ==
    /\ \A i \in 1..Len(selectedElements) :
           elementTotal(selectedElements[i], useGlobalMarkup, globalMarkupPercentage)
               = Subtotal(selectedElements[i].material_cost, selectedElements[i].labor_cost,
                          effectiveMarkup(selectedElements[i], useGlobalMarkup,
                                          globalMarkupPercentage))
    /\ \A m \in AllModules :
           moduleSubtotal(m) = sumOfTotals(moduleElements(m), 1, useGlobalMarkup,
                                           globalMarkupPercentage)
    /\ calculateTotalCost = sumOfTotals(selectedElements, 1, useGlobalMarkup,
                                        globalMarkupPercentage)

\* every priced element has a markup that is a number and is not negative
MarkupsNonNegative ==
    \A i \in 1..Len(selectedElements) :
        IsFinite(selectedElements[i].markup) /\ ~Negative(selectedElements[i].markup)

\* C3: with the global override disabled and every element's markup
\* non-negative (0 included), the element total, the module subtotal and the
\* grand total use (material_cost + labor_cost) * (1 + markup / 100) with the
\* element's own markup.
C3_OwnMarkupUsed ==
    (~useGlobalMarkup /\ MarkupsNonNegative) => TotalsUseEffectiveMarkup

\* C4: with the global override enabled, the element total, the module
\* subtotal and the grand total use the global percentage for every element,
\* and the markup of every element of the payload is the global percentage.
C4_GlobalMarkupUsed ==
    useGlobalMarkup
    => /\ TotalsUseEffectiveMarkup
       /\ \A i \in 1..Len(selectedElements) :
              formattedElements[i].markup = globalMarkupPercentage

\* C5: no two priced elements have the same element id and the same module id.
C5_PairsUnique ==
    \A i, j \in 1..Len(selectedElements) :
        (selectedElements[i].element = selectedElements[j].element
            /\ selectedElements[i].module = selectedElements[j].module)
        => i = j

\* element toggles have priced every element of the catalogue under every
\* module, next to the elements of a template
C5_Witness ==
    /\ selectedTemplate # 0
    /\ \A e \in DOMAIN AllElements, m \in AllModules :
           \E i \in 1..Len(selectedElements) : IsPair(selectedElements[i], e, m)

\* the selected modules and the priced elements that are not of a module
WithoutModule(modules, elements, module) ==
    LET OtherModule(m) == m # module
        OfOther(el) == el.module # module
    IN  [modules |-> SelectSeq(modules, OtherModule),
         elements |-> SelectSeq(elements, OfOther)]

\* C6: handleModuleToggle on a selected module m removes m from the selected
\* modules and every priced element of m, and leaves the priced elements of
\* the other modules (fields and order) and the other selected modules as
\* they were.
C6_DeselectRemovesItsElements ==
    [][\A m \in AllModules :
           (Holds(selectedModules, m) /\ handleModuleToggle(m))
           => /\ ~Holds(selectedModules', m)
              /\ \A i \in 1..Len(selectedElements') : selectedElements'[i].module # m
              /\ [modules |-> selectedModules', elements |-> selectedElements']
                     = WithoutModule(selectedModules, selectedElements, m)]_vars

\* module 1 of template 1 was deselected: module 2 and its element remain
C6_Witness ==
    /\ steps = 2
    /\ selectedTemplate = 1
    /\ customModules = <<>>
    /\ selectedModules = <<2>>
    /\ Len(selectedElements) = 1
    /\ selectedElements[1].module = 2
    /\ selectedElements[1].markup = Num(10)

\* C7: the module of every priced element is a selected module.
C7_NoOrphans ==
    \A i \in 1..Len(selectedElements) :
        Holds(selectedModules, selectedElements[i].module)

\* C8: every material_cost and labor_cost is a finite number, and so is every
\* element total, module subtotal and the grand total.
C8_CostsFinite ==
    /\ \A i \in 1..Len(selectedElements) :
           /\ IsFinite(selectedElements[i].material_cost)
           /\ IsFinite(selectedElements[i].labor_cost)
           /\ IsFinite(elementTotal(selectedElements[i], useGlobalMarkup,
                                    globalMarkupPercentage))
    /\ \A m \in AllModules : IsFinite(moduleSubtotal(m))
    /\ IsFinite(calculateTotalCost)

\* the sum of the element totals of the rows i and after of the priced
\* elements whose module is one of modules
RECURSIVE sumOfRows(_, _, _)
sumOfRows(elements, i, modules) ==
    IF i > Len(elements) THEN Num(0)
    ELSE Add(IF elements[i].module \in modules
             THEN elementTotal(elements[i], useGlobalMarkup, globalMarkupPercentage)
             ELSE Num(0),
             sumOfRows(elements, i + 1, modules))

\* C15: the grand total is the sum of the element totals of all priced
\* elements, and the subtotal of a module is the sum of the element totals of
\* exactly the priced elements of that module; nothing is rounded or
\* truncated on the way.
C15_TotalsAreSums ==
    /\ calculateTotalCost = sumOfRows(selectedElements, 1, AllModules)
    /\ \A m \in AllModules : moduleSubtotal(m) = sumOfRows(selectedElements, 1, {m})

\* three priced elements, two of module 1 and one of module 2, under their
\* own markups: the subtotals are 25.9 and 5.5 and the grand total is 31.4
C15_Witness ==
    /\ ~useGlobalMarkup
    /\ Len(selectedElements) = 3
    /\ moduleSubtotal(1) = Rat(259, 10)
    /\ moduleSubtotal(2) = Rat(11, 2)
    /\ calculateTotalCost = Rat(157, 5)

\* a formula that references a name no parameter has, or whose substituted
\* text is no expression
IsBroken(formula, parameters) ==
    /\ formula # <<>>
    /\ \/ ~(IdentifiersOf(formula) \subseteq NamesOf(parameters))
       \/ RunFunction(Substitute(formula, parameters)).k = "throw"

\* the priced elements without the one at position i
Without(elements, i) == SubSeq(elements, 1, i - 1) \o SubSeq(elements, i + 1, Len(elements))

\* the grand total and the module subtotal are those of the other priced
\* elements plus what the element brings with the costs given
TotalsWith(el, others, materialCost, laborCost) ==
    /\ calculateTotalCost
           = Add(reduceTotal(others, 1, Num(0), useGlobalMarkup, globalMarkupPercentage),
                 Subtotal(materialCost, laborCost,
                          markupOf(el, useGlobalMarkup, globalMarkupPercentage)))
    /\ moduleSubtotal(el.module)
           = Add(sumOfRows(others, 1, {el.module}),
                 Subtotal(materialCost, laborCost,
                          markupOf(el, useGlobalMarkup, globalMarkupPercentage)))

\* a priced element brings 0 for each cost whose formula is broken
BrokenBringsZero(el, others, parameters) ==
    /\ IsBroken(el.formula, parameters)
           => (el.material_cost = Num(0) /\ TotalsWith(el, others, Num(0), el.labor_cost))
    /\ IsBroken(el.labor_formula, parameters)
           => (el.labor_cost = Num(0) /\ TotalsWith(el, others, el.material_cost, Num(0)))

\* C16: a priced element whose formula is malformed or references an unknown
\* parameter contributes 0 for that cost; the element totals of the other
\* priced elements are what they are without it, and the module subtotals and
\* the grand total are the sums over the other elements plus its share.
C16_BrokenFormulaGivesZero ==
    \A i \in 1..Len(selectedElements) :
        BrokenBringsZero(selectedElements[i], Without(selectedElements, i),
                         selectedParameters)

\* a priced element whose formula was edited to a + u next to a priced
\* element whose formula is broken under the current parameters, while the
\* first still brings its labour cost to the grand total
C16_Witness ==
    /\ Len(selectedElements) = 2
    /\ selectedElements[1].formula = <<"a", "+", "u">>
    /\ selectedElements[1].material_cost = Num(0)
    /\ selectedElements[1].labor_cost = Num(7)
    /\ IsBroken(selectedElements[2].formula, selectedParameters)
    /\ selectedElements[2].material_cost = Num(0)
    /\ ~useGlobalMarkup
    /\ calculateTotalCost = Rat(42, 5)

\* the priced element a template element stands for, with costs from the
\* template's parameters
ofTemplateElement(te, parameters) ==
    [element |-> te.element,
     module |-> te.module,
     formula |-> AllElements[te.element].formula,
     labor_formula |-> AllElements[te.element].labor_formula,
     material_cost |-> evaluateFormula(AllElements[te.element].formula, parameters),
     labor_cost |-> evaluateFormula(AllElements[te.element].labor_formula, parameters),
     markup |-> te.markup]

\* the selection a template declares; every template element of the
\* catalogue specifies its markup
selectionOf(template) ==
    [parameters |-> template.parameters,
     modules |-> template.modules,
     elements |-> [i \in 1..Len(template.template_elements) |->
                      ofTemplateElement(template.template_elements[i],
                                        template.parameters)]]

\* C17: selecting a template replaces the whole selection: the selected
\* parameters and modules are the template's, and the priced elements are one
\* per template element, with its definition's formulas, the markup the
\* template specifies for it and costs evaluated on the template's parameters.
C17_TemplateReplacesSelection ==
    [][\A t \in DOMAIN AllTemplates :
           handleTemplateSelect(t)
           => [parameters |-> selectedParameters', modules |-> selectedModules',
               elements |-> selectedElements'] = selectionOf(AllTemplates[t])]_vars

\* whether the pair of an element and a module is priced
Priced(elements, e, m) ==
    \E i \in 1..Len(elements) : elements[i].element = e /\ elements[i].module = m

\* the priced element a toggle makes of an element definition
toggledOn(definition, m, parameters) ==
    [element |-> definition.id,
     module |-> m,
     formula |-> definition.formula,
     labor_formula |-> definition.labor_formula,
     material_cost |-> evaluateFormula(definition.formula, parameters),
     labor_cost |-> evaluateFormula(definition.labor_formula, parameters),
     markup |-> Num(10)]

\* C18: toggling on a pair of an element and a module that is not priced
\* appends one priced element for the pair, with the definition's formulas,
\* their costs on the current selected parameters and the markup 10, and
\* leaves the priced elements there were as they are.
C18_ToggleOnAppends ==
    [][\A e \in DOMAIN AllElements, m \in AllModules :
           (~Priced(selectedElements, e, m) /\ handleElementToggle(AllElements[e], m))
           => selectedElements'
                  = Append(selectedElements,
                           toggledOn(AllElements[e], m, selectedParameters))]_vars

\* element 1 was toggled on for module 2 next to the elements of template 1:
\* it is the third priced element, with the costs 10 and 7
C18_Witness ==
    /\ roundTrip.stage = 1
    /\ selectedTemplate = 1
    /\ Len(selectedElements) = 3
    /\ selectedElements[3].element = 1
    /\ selectedElements[3].module = 2
    /\ selectedElements[3].material_cost = Num(10)
    /\ selectedElements[3].labor_cost = Num(7)

\* the priced elements that are not of the pair, in their order
OtherPairs(elements, e, m) ==
    LET NotThePair(el) == el.element # e \/ el.module # m
    IN  SelectSeq(elements, NotThePair)

\* C19: toggling off a priced pair of an element and a module removes the
\* priced elements of that pair and nothing else: the priced elements of the
\* same element in another module and of another element in the same module
\* stay as they are, and so do the selected modules and parameters.
C19_ToggleOffRemovesThePair ==
    [][\A e \in DOMAIN AllElements, m \in AllModules :
           (Priced(selectedElements, e, m) /\ handleElementToggle(AllElements[e], m))
           => /\ ~Priced(selectedElements', e, m)
              /\ selectedElements' = OtherPairs(selectedElements, e, m)
              /\ selectedModules' = selectedModules
              /\ selectedParameters' = selectedParameters]_vars

\* element 1 of module 1 of template 2 was toggled off: element 1 of module 2
\* and element 2 of module 1 are priced as the template had them
C19_Witness ==
    /\ steps = 2
    /\ selectedTemplate = 2
    /\ selectedModules = <<1, 2>>
    /\ selectedElements = Tail(selectionOf(AllTemplates[2]).elements)

\* C20: once a pair that was not priced is toggled on and, as the next event,
\* off again, the priced elements are those of before, and so are the grand
\* total and the module subtotals.
C20_RoundTrip ==
    roundTrip.stage = 2
    => /\ selectedElements = roundTrip.before
       /\ calculateTotalCost = reduceTotal(roundTrip.before, 1, Num(0), useGlobalMarkup,
                                           globalMarkupPercentage)
       /\ \A m \in AllModules :
              moduleSubtotal(m) = sumOfRows(roundTrip.before, 1, {m})

\* a pair was toggled on and off next to the priced elements of template 1
C20_Witness ==
    /\ roundTrip.stage = 2
    /\ selectedTemplate = 1
    /\ Len(selectedElements) = 2
    /\ Priced(selectedElements, roundTrip.element, 3 - roundTrip.module)
    /\ calculateTotalCost = Rat(259, 10)

\* C21: handleModuleToggle on a module m that is not selected adds m, and
\* nothing else, to the selected modules and leaves the priced elements, the
\* selected parameters and the grand total as they were: the selection prices
\* no element for m.
C21_SelectAddsTheModule ==
    [][\A m \in AllModules :
           (~Holds(selectedModules, m) /\ handleModuleToggle(m))
           => /\ selectedModules' = Append(selectedModules, m)
              /\ selectedElements' = selectedElements
              /\ selectedParameters' = selectedParameters
              /\ reduceTotal(selectedElements', 1, Num(0), useGlobalMarkup',
                             globalMarkupPercentage') = calculateTotalCost
              /\ WithoutModule(selectedModules', selectedElements', m).elements
                     = WithoutModule(selectedModules, selectedElements, m).elements
              /\ \A i \in 1..Len(selectedElements') :
                     selectedElements'[i].module = m
                     => Holds(selectedElements, selectedElements'[i])]_vars

\* module 1 of template 1 was deselected and selected again: the element of
\* module 2 is priced as before and module 1 has no priced element
C21_Witness ==
    /\ steps = 3
    /\ selectedTemplate = 1
    /\ customModules = <<>>
    /\ selectedModules = <<2, 1>>
    /\ Len(selectedElements) = 1
    /\ selectedElements[1].module = 2
    /\ calculateTotalCost = Rat(11, 2)

\* C22: the markup of every priced element and the global markup percentage
\* are numbers that are not negative, so that no element total is below
\* material_cost + labor_cost of its element.
C22_MarkupNonNegative ==
    /\ MarkupsNonNegative
    /\ IsFinite(globalMarkupPercentage) /\ ~Negative(globalMarkupPercentage)
    /\ \A i \in 1..Len(selectedElements) :
           ~Less(elementTotal(selectedElements[i], useGlobalMarkup, globalMarkupPercentage),
                 Add(selectedElements[i].material_cost, selectedElements[i].labor_cost))

\* a text of numeric literals, the operators + - * / ( ) and spaces
IsArithmeticText(text) ==
    \A i \in 1..Len(text) : text[i] \in Digits \cup Operators \cup {".", " "}

\* C23: the text evaluateFormula hands to new Function holds only numeric
\* literals, the operators + - * / ( ) and whitespace: a call whose
\* substituted text holds any other character returns 0 and executes nothing.
C23_OnlyArithmeticExecuted ==
    (evalOutcome.done /\ evalOutcome.substituted /\ ~IsArithmeticText(evalOutcome.text))
    => (evalOutcome.result = Num(0) /\ ~evalOutcome.executed)

\* C25: once handleAddCustomModule(m) has run, m is a selected module,
\* whether or not m was a custom module or a selected module before, and
\* every priced element of before is still priced.
C25_AddCustomModuleSelects ==
    [][\A m \in AllModules :
           handleAddCustomModule(m)
           => /\ Holds(selectedModules', m)
              /\ \A i \in 1..Len(selectedElements) :
                     Holds(selectedElements', selectedElements[i])]_vars

\* C26: the markup of each element of the payload is the markup the tab
\* computes the element's shown total with, for every markup of the element
\* (0 and 12.5 included) and both settings of the global override.
C26_PayloadMarkupIsShown ==
    \A i \in 1..Len(selectedElements) :
        formattedElements[i].markup
            = markupOf(selectedElements[i], useGlobalMarkup, globalMarkupPercentage)

\* the sum of the module subtotals of the modules i and after of a list
RECURSIVE sumOfSubtotals(_, _)
sumOfSubtotals(modules, i) ==
    IF i > Len(modules) THEN Num(0)
    ELSE Add(moduleSubtotal(modules[i]), sumOfSubtotals(modules, i + 1))

\* C27: the module list of the trades tab holds no module twice, and the
\* grand total is the sum of the module subtotals of the listed modules.
C27_ModuleListAndTotal ==
    /\ \A i, j \in 1..Len(filteredModules) :
           filteredModules[i] = filteredModules[j] => i = j
    /\ calculateTotalCost = sumOfSubtotals(filteredModules, 1)

\* a text that denotes a number: a signed decimal literal, spaces around it
\* aside
DenotesNumber(text) ==
    /\ TrimLeft(text) # <<>>
    /\ DecimalEnd(TrimRight(TrimLeft(text))) = Len(TrimRight(TrimLeft(text))) + 1

\* C29: every parameter value of the payload that is a number is not NaN; a
\* string value is converted to a number only when it denotes one, and then
\* to the number it denotes; every other string value (the empty string and
\* whitespace included) is in the payload as it is.
C29_PayloadParameterValues ==
    \A i \in 1..Len(selectedParameters) :
        /\ formattedParameters[i].value.isNumber
           => /\ ~IsNaN(formattedParameters[i].value.number)
              /\ DenotesNumber(selectedParameters[i].value)
              /\ formattedParameters[i].value.number
                     = NumberOf(selectedParameters[i].value)
        /\ ~DenotesNumber(selectedParameters[i].value)
           => formattedParameters[i].value = StringValue(selectedParameters[i].value)

(***************************************************************************)
(* Properties of the calls of evaluateFormula, stated on SpecCalls.        *)
(***************************************************************************)
\* C24: two calls with the same formula and the same parameter list return
\* the same number, whatever calls were made before and between them.
C24_SameCallSameResult ==
    \A i, j \in 1..Len(calls) :
        (calls[i].formula = calls[j].formula /\ calls[i].parameters = calls[j].parameters)
        => calls[i].result = calls[j].result

(***************************************************************************)
(* Properties of the form, stated on SpecForm.                             *)
(***************************************************************************)
\* the required fields the details lack
MissingFields ==
    {RequiredFields[i] : i \in {j \in 1..Len(RequiredFields) :
                                   proposalDetails[RequiredFields[j]] = <<>>}}

\* C28: a run of handleSubmit on details that fail the validation hands no
\* payload to submitProposal, records an error for each field that failed,
\* leaves the selected parameters, modules and priced elements as they were
\* and ends with isSubmitting false; a payload is handed to submitProposal
\* only by a run of handleSubmit on details that pass the validation.
C28_FailedValidationBlocksSubmit ==
    [][/\ (handleSubmit /\ MissingFields # {})
          => /\ submitted' = submitted
             /\ DOMAIN errors' = MissingFields
             /\ selectedParameters' = selectedParameters
             /\ selectedModules' = selectedModules
             /\ selectedElements' = selectedElements
             /\ isSubmitting' = FALSE
       /\ submitted' # submitted
          => /\ handleSubmit
             /\ MissingFields = {}
             /\ isSubmitting' = FALSE]_vars

\* handleSubmit ran on the selection of template 1 with every detail but the
\* name filled in: the error of the name is recorded, the details tab is
\* shown, nothing was submitted and the selection is that of the template
C28_Witness ==
    /\ DOMAIN errors = {"name"}
    /\ activeTab = "details"
    /\ submitted = <<>>
    /\ ~isSubmitting
    /\ selectedTemplate = 1
    /\ Len(selectedElements) = 2
    /\ proposalDetails["name"] = <<>>

\* C30: when the read of an image file completes, the image alone changes:
\* every other field of the details keeps the value it has, whatever edits
\* were made between the choice of the file and the end of the read.
C30_EditsSurviveRead ==
    [][\A k \in 1..Len(pendingReads) :
           readerOnload(k)
           => \A field \in DetailFields \ {"image"} :
                  proposalDetails'[field] = proposalDetails[field]]_vars

====
